---- MODULE Spec2Model ----
(***************************************************************************)
(* Model of capture_improved.py: the NDIObjectDetector session.            *)
(*                                                                         *)
(* Strings are sequences of one-character strings, so that strip, split,   *)
(* lower and float parsing are computed the way the Python code computes   *)
(* them.  Confidences and thresholds are fixed-point numbers in hundredths *)
(* (0.5 is 50).  The clock (time.time()) counts whole seconds; it advances *)
(* only in the blocking calls (cap.read, input), the box loop of one frame *)
(* reads one clock value.                                                  *)
(***************************************************************************)
EXTENDS Integers, Sequences, FiniteSets, TLC

(* ------------------------------ bounds --------------------------------- *)
\* last clock value explored
MaxTime == 11
\* largest clock advance of one blocking call
MaxStep == 3
\* raw detections of one frame
MaxBoxes == 2
\* detections counted in a session (caps the counters)
MaxTotal == 3

(* --------------------------- characters -------------------------------- *)
UpperCase == <<"A","B","C","D","E","F","G","H","I","J","K","L","M",
               "N","O","P","Q","R","S","T","U","V","W","X","Y","Z">>
LowerCase == <<"a","b","c","d","e","f","g","h","i","j","k","l","m",
               "n","o","p","q","r","s","t","u","v","w","x","y","z">>
Digits == <<"0","1","2","3","4","5","6","7","8","9">>

\* str.lower() on one character
LowerChar(c) ==
    IF \E i \in 1..Len(UpperCase) : UpperCase[i] = c
    THEN LowerCase[CHOOSE i \in 1..Len(UpperCase) : UpperCase[i] = c]
    ELSE c

\* str.lower()
Lower(s) == [i \in 1..Len(s) |-> LowerChar(s[i])]

IsSpace(c) == c = " "

\* str.strip(): leading and trailing whitespace removed
RECURSIVE LStrip(_)
LStrip(s) == IF s # <<>> /\ IsSpace(Head(s)) THEN LStrip(Tail(s)) ELSE s
RECURSIVE RStrip(_)
RStrip(s) ==
    IF s # <<>> /\ IsSpace(s[Len(s)]) THEN RStrip(SubSeq(s, 1, Len(s) - 1)) ELSE s
Strip(s) == RStrip(LStrip(s))

\* str.split(','): the pieces between commas, empty pieces kept
RECURSIVE SplitAcc(_, _, _)
SplitAcc(s, cur, acc) ==
    IF s = <<>> THEN Append(acc, cur)
    ELSE IF Head(s) = "," THEN SplitAcc(Tail(s), <<>>, Append(acc, cur))
    ELSE SplitAcc(Tail(s), Append(cur, Head(s)), acc)
Split(s) == SplitAcc(s, <<>>, <<>>)

\* [t.strip().lower() for t in text.split(',')]
ParseTargets(text) ==
    LET parts == Split(text)
    IN [i \in 1..Len(parts) |-> Lower(Strip(parts[i]))]

(* ----------------------------- float() --------------------------------- *)
IsDigit(c) == \E i \in 1..Len(Digits) : Digits[i] = c
DigitVal(c) == (CHOOSE i \in 1..Len(Digits) : Digits[i] = c) - 1
AllDigits(s) == \A i \in 1..Len(s) : IsDigit(s[i])

RECURSIVE DigitsVal(_)
DigitsVal(s) ==
    IF s = <<>> THEN 0 ELSE 10 * DigitsVal(SubSeq(s, 1, Len(s) - 1)) + DigitVal(s[Len(s)])

\* hundredths denoted by the fraction digits (inputs have at most two)
FracVal(s) ==
    IF Len(s) = 0 THEN 0
    ELSE IF Len(s) = 1 THEN 10 * DigitVal(s[1])
    ELSE 10 * DigitVal(s[1]) + DigitVal(s[2])

DotAt(s) == IF \E i \in 1..Len(s) : s[i] = "."
            THEN CHOOSE i \in 1..Len(s) : s[i] = "." /\ \A j \in 1..(i-1) : s[j] # "."
            ELSE 0

\* an unsigned decimal numeral: digits, optionally a point, at least one digit
ParseUnsigned(s) ==
    LET d == DotAt(s)
        ip == IF d = 0 THEN s ELSE SubSeq(s, 1, d - 1)
        fp == IF d = 0 THEN <<>> ELSE SubSeq(s, d + 1, Len(s))
    IN IF AllDigits(ip) /\ AllDigits(fp) /\ Len(ip) + Len(fp) > 0
       THEN [kind |-> "num", val |-> 100 * DigitsVal(ip) + FracVal(fp)]
       ELSE [kind |-> "ValueError", val |-> 0]

\* float(text): surrounding whitespace ignored, optional sign, "nan" and "inf"
\* accepted in any letter case; anything else raises ValueError.  Exponent
\* notation is outside the input alphabet.
ParseFloat(text) ==
    LET s == Strip(text)
        signed == s # <<>> /\ Head(s) \in {"-", "+"}
        neg == s # <<>> /\ Head(s) = "-"
        body == IF signed THEN Tail(s) ELSE s
        low == Lower(body)
        u == ParseUnsigned(body)
    IN IF low = <<"n","a","n">> THEN [kind |-> "nan", val |-> 0]
       ELSE IF low = <<"i","n","f">> THEN [kind |-> "inf", val |-> IF neg THEN -1 ELSE 1]
       ELSE IF u.kind = "num" THEN [kind |-> "num", val |-> IF neg THEN -u.val ELSE u.val]
       ELSE u

\* mutant: the range test written with strict comparisons
InUnitRangeStrict(x) == x.kind = "num" /\ 0 < x.val /\ x.val < 100

\* 0.0 <= x <= 1.0 for a parsed float (false for nan and the infinities)
InUnitRange(x) == x.kind = "num" /\ 0 <= x.val /\ x.val <= 100

(* --------------------------- configuration ----------------------------- *)
\* self.notification_cooldown
NotificationCooldown == 5

Person == <<"p","e","r","s","o","n">>
Car == <<"c","a","r">>

ConfigKeys == {"confidence_threshold", "target_classes",
               "show_all_detections", "save_detections"}

\* default_config (the keys the loop reads)
DefaultConfig ==
    [confidence_threshold |-> 50,
     target_classes |-> <<Person>>,
     show_all_detections |-> FALSE,
     save_detections |-> FALSE]

\* the for-loop of load_config: keys missing from the file take the defaults
MergeDefaults(content) ==
    [k \in ConfigKeys |-> IF k \in DOMAIN content THEN content[k] ELSE DefaultConfig[k]]

\* what json.dump(config) leaves in the file
Written(cfg) == [state |-> "ok", content |-> cfg]

\* how save_config can go: the dump succeeds, open() raises, or the dump
\* raises after open(..., 'w') truncated the file
SaveOutcomes == {"ok", "open_failed", "write_failed"}

\* save_config(cfg): the file left on disk; every exception is caught
FileAfterSave(f, cfg, outcome) ==
    IF outcome = "ok" THEN Written(cfg)
    ELSE IF outcome = "open_failed" THEN f
    ELSE [state |-> "corrupt", content |-> <<>>]

\* load_config: the configuration returned for the file found on disk
LoadConfig(f) ==
    IF f.state = "ok" THEN MergeDefaults(f.content) ELSE DefaultConfig

\* mutant: load_config also rewrites a file it could not parse
FileAfterLoadRepair(f, outcome) ==
    IF f.state \in {"missing", "corrupt"}
    THEN FileAfterSave(f, DefaultConfig, outcome)
    ELSE f

\* load_config: the file left on disk (a missing file is created with the
\* defaults by save_config(default_config))
FileAfterLoad(f, outcome) ==
    IF f.state = "missing" THEN FileAfterSave(f, DefaultConfig, outcome) ELSE f

\* main: command-line overrides; an absent option is <<>>, a given one <<value>>
ApplyArgs(cfg, args) ==
    LET c1 == IF args.confidence # <<>>
              THEN [cfg EXCEPT !.confidence_threshold = args.confidence[1]]
              ELSE cfg
    IN IF args.targets # <<>> /\ args.targets[1] # <<>>
       THEN [c1 EXCEPT !.target_classes = ParseTargets(args.targets[1])]
       ELSE c1

(* ------------------------------ detector -------------------------------- *)
\* self.class_names (model.names): class id -> label
ClassNames == (0 :> Person) @@ (2 :> Car) @@ (16 :> <<"D","o","g">>)

\* mutant: the threshold test written with >
PassesThresholdStrict(conf, cfg) == conf > cfg.confidence_threshold

\* conf >= self.config["confidence_threshold"]
PassesThreshold(conf, cfg) == conf >= cfg.confidence_threshold

\* cls_name in [tc.lower() for tc in self.config["target_classes"]]
IsTarget(cls_name, cfg) ==
    \E i \in 1..Len(cfg.target_classes) : Lower(cfg.target_classes[i]) = cls_name

\* mutant: the guard without the test for the "person" label
ShouldNotifyAnyTarget(cls_name, is_target, current_time, last_time) ==
    /\ is_target
    /\ current_time - last_time >= NotificationCooldown

\* the guard of the notification: person, target, cooldown elapsed
ShouldNotify(cls_name, is_target, current_time, last_time) ==
    /\ cls_name = Person
    /\ is_target
    /\ current_time - last_time >= NotificationCooldown

\* [d for d in detections if d["class"] in [tc.lower() for tc in targets]]
TargetDetections(dets, cfg) ==
    SelectSeq(dets, LAMBDA d : IsTarget(d.class, cfg))

\* mutant: the stats update counts every detection as a target
TargetCountAll(dets, cfg) == Len(dets)

\* the number added to target_detections
TargetCount(dets, cfg) == Len(TargetDetections(dets, cfg))

(* ------------------------------ prompts --------------------------------- *)
\* change_confidence, after input() returned text
ConfigAfterConfidence(cfg, text) ==
    LET new_conf_input == Strip(text)
        new_conf == ParseFloat(new_conf_input)
    IN IF new_conf_input # <<>> /\ InUnitRange(new_conf)
       THEN [cfg EXCEPT !.confidence_threshold = new_conf.val]
       ELSE cfg

\* change_target, after input() returned text
ConfigAfterTarget(cfg, text) ==
    LET new_targets == Strip(text)
    IN IF new_targets # <<>>
       THEN [cfg EXCEPT !.target_classes = ParseTargets(new_targets)]
       ELSE cfg

(* ---------------------------- environments ------------------------------ *)
(* What the session is given: the file on disk, the command line, the      *)
(* detector's boxes, the clock's advances, the keys pressed, the lines     *)
(* typed and how a write of the configuration file goes.  Each             *)
(* specification below runs the same program in one of them.               *)

FileMissing == [state |-> "missing", content |-> <<>>]
FileCorrupt == [state |-> "corrupt", content |-> <<>>]
\* {"target_classes": ["Person", "car"]}: the other keys are missing
FilePartial ==
    [state |-> "ok", content |-> [target_classes |-> <<<<"P","e","r","s","o","n">>, Car>>]]

\* {"target_classes": [], "show_all_detections": true, "save_detections": true}
FileShowAll ==
    [state |-> "ok",
     content |-> [target_classes |-> <<>>, show_all_detections |-> TRUE,
                  save_detections |-> TRUE]]

NoArgs == [confidence |-> <<>>, targets |-> <<>>]
\* --confidence 1.5
ArgsConfidence == [confidence |-> <<150>>, targets |-> <<>>]
\* --targets Car
ArgsTargets == [confidence |-> <<>>, targets |-> << <<"C","a","r">> >>]

PersonHigh == [cls |-> 0, conf |-> 90]
PersonAtDefault == [cls |-> 0, conf |-> 50]
PersonLow == [cls |-> 0, conf |-> 30]
CarHigh == [cls |-> 2, conf |-> 90]
DogMid == [cls |-> 16, conf |-> 60]
UnknownClass == [cls |-> 99, conf |-> 90]
PersonMid == [cls |-> 0, conf |-> 60]
DogHigh == [cls |-> 16, conf |-> 90]

\* ord('q'), ord(' '), ord('h'), ord('c'), ord('t'), ord('s'), no key (-1 & 0xFF), ord('Q')
AllKeys == {113, 32, 104, 99, 116, 115, 255, 81}

\* lines typed at the confidence prompt
ConfidenceLines ==
    { <<>>, <<" ">>, <<"0",".","9">>, <<" ","1"," ">>, <<"0">>,
      <<"1",".","5">>, <<"-","0",".","1">>, <<"a","b","c">>, <<"n","a","n">> }

\* lines typed at the target prompt
TargetLines ==
    { <<>>, <<" ">>, <<"C","a","t",","," ","D","O","G">>, <<"c","a","r">>,
      <<"p","e","r","s","o","n",",",",","c","a","r">>, <<"c","a","r",",">> }

\* the running session: the clock advances, every kind of box arrives
EnvSession ==
    [files |-> {FileMissing},
     args |-> {NoArgs},
     steps |-> 0..MaxStep,
     boxes |-> {PersonHigh, PersonLow, CarHigh, UnknownClass},
     keys |-> AllKeys,
     clines |-> {<<"1",".","5">>},
     tlines |-> {<<"c","a","r">>},
     saves |-> {"ok"}]

\* the operator's console: every file, command line and typed line; the clock stands
EnvConsole ==
    [files |-> {FileMissing, FileCorrupt, FilePartial},
     args |-> {NoArgs, ArgsConfidence, ArgsTargets},
     steps |-> {0},
     boxes |-> {PersonHigh, PersonAtDefault, DogMid},
     keys |-> {113, 32, 99, 116, 255},
     clines |-> ConfidenceLines,
     tlines |-> TargetLines,
     saves |-> {"ok"}]

\* the disk: every file, a save that can fail, the log switched on by the file
EnvFiles ==
    [files |-> {FileMissing, FileCorrupt, FilePartial, FileShowAll},
     args |-> {NoArgs, ArgsTargets},
     steps |-> {0},
     boxes |-> {PersonMid, DogHigh},
     keys |-> {113, 115, 99, 116, 255},
     clines |-> {<<"0",".","9">>, <<"0">>},
     tlines |-> {<<"C","a","t",","," ","D","O","G">>},
     saves |-> SaveOutcomes]

(* ------------------------------- state ---------------------------------- *)
VARIABLES
    pc,                     \* position of the main thread
    file,                   \* the configuration file on disk
    config,                 \* self.config
    detection_stats,        \* self.detection_stats
    paused,                 \* self.paused
    show_help,              \* self.show_help
    last_notification_time, \* self.last_notification_time
    now,                    \* time.time()
    remaining,              \* boxes of results.boxes not yet visited
    box,                    \* the box of the current iteration (while notifying)
    detections,             \* the detections list of process_frame
    key,                    \* the key read by cv2.waitKey
    line,                   \* the text returned by input()
    fireLog,                \* clock values at which an alert thread was started
    tickFires,              \* alert threads started in the current tick
    ended,                  \* why the loop ended
    cap_released,           \* calls of self.cap.release()
    windows_destroyed,      \* calls of cv2.destroyAllWindows()
    reported,               \* the stats printed by the finally block
    alerts,                 \* alert threads started and not yet finished
    exit_status,            \* <<>> while the process runs, then <<status>>
    log_lines,              \* lines appended to the detections log
    raw,                    \* the boxes of this frame visited so far
    rendered,               \* the boxes drawn on this frame
    trace                   \* what this tick did so far: read, infer, show, key

vars == <<pc, file, config, detection_stats, paused, show_help,
          last_notification_time, now, remaining, box, detections, key, line,
          fireLog, tickFires, ended, cap_released, windows_destroyed, reported,
          alerts, exit_status, log_lines, raw, rendered, trace>>

\* what a step leaves alone unless it says otherwise
sessionVars == <<file, config, detection_stats, paused, show_help,
                 last_notification_time>>
resourceVars == <<ended, cap_released, windows_destroyed, reported>>
\* the alert threads, the process and the log
outsideVars == <<alerts, exit_status, log_lines>>
\* what belongs to the tick under way
tickVars == <<raw, rendered, trace>>

\* cv2.waitKey(1) & 0xFF when no key is pressed; also the value of the dead local
NoKey == 255
NoBox == [cls |-> -1, conf |-> 0]

\* before main(): a file on disk, the fields as __init__ will set them
InitIn(E) ==
    /\ pc = "main"
    /\ file \in E.files
    /\ config = DefaultConfig
    /\ detection_stats = [total_detections |-> 0, target_detections |-> 0]
    /\ paused = FALSE
    /\ show_help = TRUE
    /\ last_notification_time = 0
    /\ now = NotificationCooldown
    /\ remaining = 0
    /\ box = NoBox
    /\ detections = <<>>
    /\ key = NoKey
    /\ line = <<>>
    /\ fireLog = <<>>
    /\ tickFires = 0
    /\ ended = "no"
    /\ cap_released = 0
    /\ windows_destroyed = 0
    /\ reported = <<>>
    /\ alerts = 0
    /\ exit_status = <<>>
    /\ log_lines = 0
    /\ raw = <<>>
    /\ rendered = <<>>
    /\ trace = <<>>

(* ------------------------------ actions --------------------------------- *)
\* main(): construct the detector, apply the overrides, start run()
Main(E) ==
    /\ pc = "main"
    /\ \E args \in E.args :
          config' = ApplyArgs(LoadConfig(file), args)
    /\ \E outcome \in E.saves :
          file' = FileAfterLoad(file, outcome)
    /\ pc' = "loop"
    /\ UNCHANGED <<detection_stats, paused, show_help, last_notification_time, now,
                   remaining, box, detections, key, line, fireLog, tickFires>>
    /\ UNCHANGED resourceVars
    /\ UNCHANGED <<outsideVars, tickVars>>

\* what the head of a tick did: self.cap.read() in either branch, then the
\* detector on the frame when the read succeeded and the session is running
ReadEvents(ret, p) == IF ret /\ ~p THEN <<"read", "infer">> ELSE <<"read">>

\* mutant: the paused branch hands its frame to process_frame as well
ReadFrameDetectsPaused(E) ==
    /\ pc = "loop"
    /\ \E dt \in E.steps, ret \in BOOLEAN, n \in 0..MaxBoxes :
          /\ now + dt <= MaxTime
          /\ detection_stats.total_detections + n <= MaxTotal
          /\ now' = now + dt
          /\ tickFires' = 0
          /\ trace' = ReadEvents(ret, paused)
          /\ IF ~ret
             THEN /\ pc' = "finally"
                  /\ ended' = IF paused THEN "read_failed_paused" ELSE "read_failed"
                  /\ UNCHANGED <<remaining, detections>>
             ELSE /\ ended' = ended
                  /\ pc' = "box" /\ remaining' = n /\ detections' = <<>>
    /\ raw' = <<>>
    /\ rendered' = <<>>
    /\ UNCHANGED sessionVars
    /\ UNCHANGED <<box, key, line, fireLog, cap_released, windows_destroyed, reported>>
    /\ UNCHANGED outsideVars

\* the head of the while loop: self.cap.read() in either branch, then
\* results = self.model(frame)[0] when running
ReadFrame(E) ==
    /\ pc = "loop"
    /\ \E dt \in E.steps, ret \in BOOLEAN, n \in 0..MaxBoxes :
          /\ now + dt <= MaxTime
          /\ detection_stats.total_detections + n <= MaxTotal
          /\ now' = now + dt
          /\ tickFires' = 0
          /\ trace' = ReadEvents(ret, paused)
          /\ IF ~ret
             THEN /\ pc' = "finally"
                  /\ ended' = IF paused THEN "read_failed_paused" ELSE "read_failed"
                  /\ UNCHANGED <<remaining, detections>>
             ELSE /\ ended' = ended
                  /\ IF paused
                     THEN pc' = "draw" /\ UNCHANGED <<remaining, detections>>
                     ELSE pc' = "box" /\ remaining' = n /\ detections' = <<>>
    /\ raw' = <<>>
    /\ rendered' = <<>>
    /\ UNCHANGED sessionVars
    /\ UNCHANGED <<box, key, line, fireLog, cap_released, windows_destroyed, reported>>
    /\ UNCHANGED outsideVars

\* where the box loop goes after the threshold test and the notification guard
BoxTarget(b, cfg, current_time, last_time) ==
    LET cls_name == Lower(ClassNames[b.cls])
    IN IF PassesThreshold(b.conf, cfg)
          /\ ShouldNotify(cls_name, IsTarget(cls_name, cfg), current_time, last_time)
       THEN "notify"
       ELSE "box"

\* detections.append(detection) for a box that passes the threshold
DetectionsAfterBox(dets, b, cfg) ==
    IF PassesThreshold(b.conf, cfg)
    THEN Append(dets, [class |-> Lower(ClassNames[b.cls]), confidence |-> b.conf])
    ELSE dets

\* cv2.rectangle / cv2.putText for a box that passes the threshold and is a
\* target, or any box that passes it when show_all_detections is set
RenderedAfterBox(rend, b, cfg) ==
    LET cls_name == Lower(ClassNames[b.cls])
        is_target == IsTarget(cls_name, cfg)
    IN IF PassesThreshold(b.conf, cfg) /\ (is_target \/ cfg.show_all_detections)
       THEN Append(rend, [class |-> cls_name, confidence |-> b.conf,
                          target |-> is_target])
       ELSE rend

\* process_frame: one iteration of the box loop, up to the notification guard
ProcessBox(E) ==
    /\ pc = "box"
    /\ remaining > 0
    /\ \E b \in E.boxes :
         IF b.cls \notin DOMAIN ClassNames
         THEN \* self.class_names[cls_id] raises KeyError, which leaves run()
              /\ pc' = "finally"
              /\ ended' = "exception"
              /\ UNCHANGED <<remaining, box, detections, raw, rendered>>
         ELSE /\ ended' = ended
              /\ raw' = Append(raw, b)
              /\ detections' = DetectionsAfterBox(detections, b, config)
              /\ pc' = BoxTarget(b, config, now, last_notification_time)
              /\ IF pc' = "notify"
                 THEN box' = b /\ remaining' = remaining /\ rendered' = rendered
                 ELSE /\ box' = NoBox
                      /\ remaining' = remaining - 1
                      /\ rendered' = RenderedAfterBox(rendered, b, config)
    /\ UNCHANGED sessionVars
    /\ UNCHANGED <<now, key, line, fireLog, tickFires, cap_released,
                   windows_destroyed, reported>>
    /\ UNCHANGED <<outsideVars, trace>>

\* mutant: show_notification joins the previous alert thread before starting one
NotifySerialized ==
    /\ pc = "notify"
    /\ alerts = 0
    /\ \E started \in BOOLEAN :
          IF started
          THEN /\ fireLog' = Append(fireLog, now)
               /\ tickFires' = tickFires + 1
               /\ alerts' = alerts + 1
               /\ pc' = "stamp"
               /\ ended' = ended
          ELSE /\ pc' = "finally"
               /\ ended' = "start_failed"
               /\ UNCHANGED <<fireLog, tickFires, alerts>>
    /\ UNCHANGED sessionVars
    /\ UNCHANGED <<now, remaining, box, detections, key, line>>
    /\ UNCHANGED <<cap_released, windows_destroyed, reported>>
    /\ UNCHANGED <<exit_status, log_lines, tickVars>>

\* self.show_notification(...): threading.Thread(target=show_message).start()
\* either starts the alert thread and returns at once, or raises RuntimeError
\* (no thread can be started), which nothing in show_notification,
\* process_frame or run() catches
Notify ==
    /\ pc = "notify"
    /\ \E started \in BOOLEAN :
          IF started
          THEN /\ fireLog' = Append(fireLog, now)
               /\ tickFires' = tickFires + 1
               /\ alerts' = alerts + 1
               /\ pc' = "stamp"
               /\ ended' = ended
          ELSE /\ pc' = "finally"
               /\ ended' = "start_failed"
               /\ UNCHANGED <<fireLog, tickFires, alerts>>
    /\ UNCHANGED sessionVars
    /\ UNCHANGED <<now, remaining, box, detections, key, line>>
    /\ UNCHANGED <<cap_released, windows_destroyed, reported>>
    /\ UNCHANGED <<exit_status, log_lines, tickVars>>

\* show_message in the alert thread: the message box is dismissed, or tk.Tk()
\* or the message box raises and the except clause of show_message prints it
AlertEnd ==
    /\ alerts > 0
    /\ exit_status = <<>>
    /\ alerts' = alerts - 1
    /\ UNCHANGED <<pc, now, remaining, box, detections, key, line, fireLog, tickFires>>
    /\ UNCHANGED sessionVars
    /\ UNCHANGED resourceVars
    /\ UNCHANGED <<exit_status, log_lines, tickVars>>

\* mutant: the timestamp is not updated after a notification
StampedTimeStale(current_time, last_time) == last_time

\* the value stored by self.last_notification_time = current_time
StampedTime(current_time, last_time) == current_time

\* self.last_notification_time = current_time, then the box is drawn
Stamp ==
    /\ pc = "stamp"
    /\ last_notification_time' = StampedTime(now, last_notification_time)
    /\ remaining' = remaining - 1
    /\ box' = NoBox
    /\ pc' = "box"
    /\ rendered' = RenderedAfterBox(rendered, box, config)
    /\ UNCHANGED <<file, config, detection_stats, paused, show_help>>
    /\ UNCHANGED <<now, detections, key, line, fireLog, tickFires>>
    /\ UNCHANGED resourceVars
    /\ UNCHANGED <<outsideVars, raw, trace>>

\* process_frame returns
EndBoxes ==
    /\ pc = "box"
    /\ remaining = 0
    /\ pc' = "total"
    /\ UNCHANGED sessionVars
    /\ UNCHANGED <<now, remaining, box, detections, key, line, fireLog, tickFires>>
    /\ UNCHANGED resourceVars
    /\ UNCHANGED <<outsideVars, tickVars>>

\* mutant: = written for +=
TotalAssigned(total, dets) == Len(dets)

\* total_detections after += len(detections)
TotalAfter(total, dets) == total + Len(dets)

\* self.detection_stats["total_detections"] += len(detections)
UpdateTotal ==
    /\ pc = "total"
    /\ detection_stats' = [detection_stats EXCEPT
                              !.total_detections = TotalAfter(@, detections)]
    /\ pc' = "target"
    /\ UNCHANGED <<file, config, paused, show_help, last_notification_time>>
    /\ UNCHANGED <<now, remaining, box, detections, key, line, fireLog, tickFires>>
    /\ UNCHANGED resourceVars
    /\ UNCHANGED <<outsideVars, tickVars>>

\* save_detections(dets): how many lines the log can gain.  Nothing when
\* save_detections is off or the list is empty; otherwise one line per
\* detection, or fewer when open(), json.dumps or write raises, which the
\* except clause catches (json.dumps raises on a value it cannot serialise,
\* before the first line is written)
LinesLogged(dets, cfg) ==
    IF cfg.save_detections /\ dets # <<>> THEN 0..Len(dets) ELSE {0}

\* self.detection_stats["target_detections"] += len(target_detections),
\* then save_detections(detections)
UpdateTarget ==
    /\ pc = "target"
    /\ detection_stats' = [detection_stats EXCEPT
                              !.target_detections = @ + TargetCount(detections, config)]
    /\ \E written \in LinesLogged(detections, config) :
          log_lines' = log_lines + written
    /\ detections' = <<>>
    /\ pc' = "draw"
    /\ UNCHANGED <<file, config, paused, show_help, last_notification_time>>
    /\ UNCHANGED <<now, remaining, box, key, line, fireLog, tickFires>>
    /\ UNCHANGED resourceVars
    /\ UNCHANGED <<alerts, exit_status, tickVars>>

\* draw_ui_overlay, cv2.imshow, key = cv2.waitKey(1) & 0xFF
DrawAndWaitKey(E) ==
    /\ pc = "draw"
    /\ key' \in E.keys
    /\ pc' = "key"
    /\ trace' = trace \o <<"overlay", "show", "key">>
    /\ raw' = <<>>
    /\ rendered' = <<>>
    /\ UNCHANGED sessionVars
    /\ UNCHANGED <<now, remaining, box, detections, line, fireLog, tickFires>>
    /\ UNCHANGED resourceVars
    /\ UNCHANGED outsideVars

\* handle_keyboard_input(key): where the main thread goes next
KeyTarget(k) ==
    IF k = 113 THEN "finally"           \* ord('q'): return False, break
    ELSE IF k = 99 THEN "promptC"       \* ord('c'): change_confidence()
    ELSE IF k = 116 THEN "promptT"      \* ord('t'): change_target()
    ELSE "loop"

\* mutant: the help key falls into the pause branch
PausedAfterKeyOrHelp(k, p) == IF k \in {32, 104} THEN ~p ELSE p

\* handle_keyboard_input(key): self.paused
PausedAfterKey(k, p) == IF k = 32 THEN ~p ELSE p

\* handle_keyboard_input(key): self.show_help
HelpAfterKey(k, h) == IF k = 104 THEN ~h ELSE h

\* handle_keyboard_input(key): the file after save_config() on ord('s')
FileAfterKey(k, f, c, outcome) == IF k = 115 THEN FileAfterSave(f, c, outcome) ELSE f

\* mutant: save_config without its try/except, so a failed write leaves run()
HandleKeyboardInputUncaught(E) ==
    /\ pc = "key"
    /\ \E outcome \in E.saves :
          /\ file' = FileAfterKey(key, file, config, outcome)
          /\ IF key = 115 /\ outcome # "ok"
             THEN pc' = "finally" /\ ended' = "exception"
             ELSE /\ pc' = KeyTarget(key)
                  /\ ended' = IF KeyTarget(key) = "finally" THEN "quit" ELSE ended
    /\ paused' = PausedAfterKey(key, paused)
    /\ show_help' = HelpAfterKey(key, show_help)
    /\ key' = NoKey
    /\ trace' = <<>>
    /\ UNCHANGED <<config, detection_stats, last_notification_time>>
    /\ UNCHANGED <<now, remaining, box, detections, line, fireLog, tickFires>>
    /\ UNCHANGED <<cap_released, windows_destroyed, reported>>
    /\ UNCHANGED <<outsideVars, raw, rendered>>

HandleKeyboardInput(E) ==
    /\ pc = "key"
    /\ pc' = KeyTarget(key)
    /\ paused' = PausedAfterKey(key, paused)
    /\ show_help' = HelpAfterKey(key, show_help)
    /\ \E outcome \in E.saves :
          file' = FileAfterKey(key, file, config, outcome)
    /\ ended' = IF KeyTarget(key) = "finally" THEN "quit" ELSE ended
    /\ key' = NoKey
    /\ trace' = <<>>
    /\ UNCHANGED <<config, detection_stats, last_notification_time>>
    /\ UNCHANGED <<now, remaining, box, detections, line, fireLog, tickFires>>
    /\ UNCHANGED <<cap_released, windows_destroyed, reported>>
    /\ UNCHANGED <<outsideVars, raw, rendered>>

\* input(...) returns a line at either prompt
InputLine(E) ==
    /\ pc \in {"promptC", "promptT"}
    /\ \E dt \in E.steps :
          /\ now + dt <= MaxTime
          /\ now' = now + dt
    /\ line' \in (IF pc = "promptC" THEN E.clines ELSE E.tlines)
    /\ pc' = IF pc = "promptC" THEN "applyC" ELSE "applyT"
    /\ UNCHANGED sessionVars
    /\ UNCHANGED <<remaining, box, detections, key, fireLog, tickFires>>
    /\ UNCHANGED resourceVars
    /\ UNCHANGED <<outsideVars, tickVars>>

\* input(...) raises EOFError, caught inside the handler
InputEOF ==
    /\ pc \in {"promptC", "promptT"}
    /\ pc' = "loop"
    /\ UNCHANGED sessionVars
    /\ UNCHANGED <<now, remaining, box, detections, key, line, fireLog, tickFires>>
    /\ UNCHANGED resourceVars
    /\ UNCHANGED <<outsideVars, tickVars>>

\* change_confidence: the body of the try after input()
ChangeConfidence ==
    /\ pc = "applyC"
    /\ config' = ConfigAfterConfidence(config, line)
    /\ line' = <<>>
    /\ pc' = "loop"
    /\ UNCHANGED <<file, detection_stats, paused, show_help, last_notification_time>>
    /\ UNCHANGED <<now, remaining, box, detections, key, fireLog, tickFires>>
    /\ UNCHANGED resourceVars
    /\ UNCHANGED <<outsideVars, tickVars>>

\* change_target: the body of the try after input()
ChangeTarget ==
    /\ pc = "applyT"
    /\ config' = ConfigAfterTarget(config, line)
    /\ line' = <<>>
    /\ pc' = "loop"
    /\ UNCHANGED <<file, detection_stats, paused, show_help, last_notification_time>>
    /\ UNCHANGED <<now, remaining, box, detections, key, fireLog, tickFires>>
    /\ UNCHANGED resourceVars
    /\ UNCHANGED <<outsideVars, tickVars>>

InLoop == {"loop", "box", "notify", "stamp", "total", "target", "draw", "key",
           "promptC", "promptT", "applyC", "applyT"}
InPrompt == {"promptC", "promptT", "applyC", "applyT"}

\* mutant: every KeyboardInterrupt is swallowed and the loop goes on
InterruptTargetSwallowed(p) == "loop"

\* where a KeyboardInterrupt raised at position p is caught: by the except
\* clause of change_confidence / change_target, or by the one of run()
InterruptTarget(p) == IF p \in InPrompt THEN "loop" ELSE "finally"

\* the operator's interrupt (SIGINT) arrives while the loop runs
Interrupt ==
    /\ pc \in InLoop
    /\ pc' = InterruptTarget(pc)
    /\ ended' = IF InterruptTarget(pc) = "finally" THEN "interrupt" ELSE ended
    /\ line' = <<>>
    /\ key' = NoKey
    /\ remaining' = 0
    /\ box' = NoBox
    /\ detections' = <<>>
    /\ raw' = <<>>
    /\ rendered' = <<>>
    /\ trace' = <<>>
    /\ UNCHANGED sessionVars
    /\ UNCHANGED <<now, fireLog, tickFires, cap_released, windows_destroyed, reported>>
    /\ UNCHANGED outsideVars

\* mutant: the cleanup follows the loop instead of sitting in a finally block,
\* so an exception leaving the loop skips the release of the capture
FinallyAfterLoop ==
    /\ pc = "finally"
    /\ cap_released' = IF ended = "exception" THEN cap_released ELSE cap_released + 1
    /\ windows_destroyed' = windows_destroyed + 1
    /\ reported' = Append(reported, detection_stats)
    /\ pc' = "done"
    /\ UNCHANGED sessionVars
    /\ UNCHANGED <<now, remaining, box, detections, key, line, fireLog, tickFires, ended>>
    /\ UNCHANGED <<outsideVars, tickVars>>

\* the finally block of run()
Finally ==
    /\ pc = "finally"
    /\ cap_released' = cap_released + 1
    /\ windows_destroyed' = windows_destroyed + 1
    /\ reported' = Append(reported, detection_stats)
    /\ pc' = "done"
    /\ UNCHANGED sessionVars
    /\ UNCHANGED <<now, remaining, box, detections, key, line, fireLog, tickFires, ended>>
    /\ UNCHANGED <<outsideVars, tickVars>>

\* the status the interpreter exits with once run() is left: 0 when run()
\* and main() return, 1 when an exception propagates out of main()
ExitStatus(why) == IF why \in {"exception", "start_failed"} THEN 1 ELSE 0

\* run() is left, main() returns or the exception reaches the interpreter; the
\* process exits and takes its daemon threads with it
Exit ==
    /\ pc = "done"
    /\ exit_status = <<>>
    /\ exit_status' = <<ExitStatus(ended)>>
    /\ alerts' = 0
    /\ UNCHANGED <<pc, now, remaining, box, detections, key, line, fireLog, tickFires>>
    /\ UNCHANGED sessionVars
    /\ UNCHANGED resourceVars
    /\ UNCHANGED <<log_lines, tickVars>>

NextIn(E) ==
    \/ Main(E)
    \/ ReadFrame(E)
    \/ ProcessBox(E)
    \/ Notify
    \/ Stamp
    \/ EndBoxes
    \/ UpdateTotal
    \/ UpdateTarget
    \/ DrawAndWaitKey(E)
    \/ HandleKeyboardInput(E)
    \/ InputLine(E)
    \/ InputEOF
    \/ ChangeConfidence
    \/ ChangeTarget
    \/ Interrupt
    \/ Finally
    \/ AlertEnd
    \/ Exit

Init == InitIn(EnvSession)
Next == NextIn(EnvSession)
Spec == Init /\ [][Next]_vars

InitConsole == InitIn(EnvConsole)
NextConsole == NextIn(EnvConsole)
SpecConsole == InitConsole /\ [][NextConsole]_vars

InitFiles == InitIn(EnvFiles)
NextFiles == NextIn(EnvFiles)
SpecFiles == InitFiles /\ [][NextFiles]_vars

(* ------------------------------- claims --------------------------------- *)

\* C1: any two notification fires are at least the cooldown apart, measured
\* from the earlier fire; at most one fires in a tick; and a person-target
\* detection that passes the threshold reaches show_notification exactly when
\* no fire happened yet or the last fire is at least the cooldown old.
C1_Spaced ==
    \A i, j \in 1..Len(fireLog) :
        i < j => fireLog[j] - fireLog[i] >= NotificationCooldown
C1_Qualifying(d) ==
    d.class = Person /\ \E i \in 1..Len(config.target_classes) :
                            Lower(config.target_classes[i]) = Person
C1_Guard ==
    (pc = "box" /\ Len(detections') = Len(detections) + 1
        /\ C1_Qualifying(detections'[Len(detections')]))
    => (pc' = "notify"
          <=> (fireLog = <<>> \/ now - fireLog[Len(fireLog)] >= NotificationCooldown))
ClaimC1 == [](C1_Spaced /\ tickFires <= 1) /\ [][C1_Guard]_vars
\* two fires exactly the cooldown apart, with a third counted person detection
\* in between that did not fire
WitnessC1 ==
    /\ Len(fireLog) = 2
    /\ fireLog[2] - fireLog[1] = NotificationCooldown
    /\ config.target_classes = <<Person>>
    /\ detection_stats.target_detections = 3
    /\ pc = "draw"

\* C2: show_notification is called only for the box of the current iteration,
\* and that box passed the threshold, is labelled "person" and "person" is in
\* the target set; no other step records a fire.
C2_BoxQualifies ==
    /\ box.cls \in DOMAIN ClassNames
    /\ Lower(ClassNames[box.cls]) = Person
    /\ box.conf >= config.confidence_threshold
    /\ \E i \in 1..Len(config.target_classes) : Lower(config.target_classes[i]) = Person
ClaimC2 ==
    /\ [](pc \in {"notify", "stamp"} => C2_BoxQualifies)
    /\ [][fireLog' # fireLog => (pc = "notify" /\ C2_BoxQualifies)]_vars
\* a car was counted as a target while "person" is no target, and nothing fired
WitnessC2 ==
    /\ config.target_classes = <<Car>>
    /\ detection_stats.target_detections > 0
    /\ fireLog = <<>>
    /\ pc = "draw"

\* C3: the two counters never decrease and target_detections <= total_detections.
C3_Monotone ==
    /\ detection_stats'.total_detections >= detection_stats.total_detections
    /\ detection_stats'.target_detections >= detection_stats.target_detections
ClaimC3 ==
    /\ [](detection_stats.target_detections <= detection_stats.total_detections)
    /\ [][C3_Monotone]_vars
\* counted detections, some of them no targets, after edits and while paused
WitnessC3 ==
    /\ detection_stats.target_detections > 0
    /\ detection_stats.total_detections > detection_stats.target_detections
    /\ paused
    /\ config.confidence_threshold = 90
    /\ config.target_classes # <<Person>>

\* C4: once the session is constructed, the confidence threshold of the
\* configuration is in [0,1], however it was set (file, command line, edits).
ClaimC4 ==
    pc # "main" => (0 <= config.confidence_threshold /\ config.confidence_threshold <= 100)

\* C5: change_target with a non-empty line replaces the target set by the
\* trimmed, lowercased comma-separated entries, none of them the empty string;
\* an empty line or a cancelled prompt leaves the target set unchanged.
C5_Effect ==
    IF Strip(line) # <<>>
    THEN /\ config'.target_classes = ParseTargets(Strip(line))
         /\ \A i \in 1..Len(config'.target_classes) : config'.target_classes[i] # <<>>
    ELSE config' = config
C5_Cancel ==
    (pc \in {"promptT", "applyT"} /\ (InputEOF \/ Interrupt)) => config' = config
ClaimC5 == [][(ChangeTarget => C5_Effect) /\ C5_Cancel]_vars

\* C6: change_confidence with a line that is no number in [0,1] (out of range,
\* not numeric, empty) or with a cancelled prompt changes nothing of the
\* configuration, the flags, the stats and the file, raises nothing and returns
\* to the loop; a line denoting a number in [0,1] sets the threshold to it.
\* The numbers the typed lines denote, in hundredths:
C6_Valid ==
    (<<"0",".","9">> :> 90) @@ (<<" ","1"," ">> :> 100) @@ (<<"0">> :> 0)
C6_Rest ==
    /\ pc' = "loop"
    /\ ended' = "no"
    /\ UNCHANGED <<file, paused, show_help, detection_stats, last_notification_time>>
    /\ config'.target_classes = config.target_classes
    /\ config'.show_all_detections = config.show_all_detections
    /\ config'.save_detections = config.save_detections
C6_Effect ==
    /\ C6_Rest
    /\ IF line \in DOMAIN C6_Valid
       THEN config'.confidence_threshold = C6_Valid[line]
       ELSE config' = config
C6_Cancel ==
    (pc \in {"promptC", "applyC"} /\ (InputEOF \/ Interrupt))
        => (C6_Rest /\ config' = config)
ClaimC6 == [][(ChangeConfidence => C6_Effect) /\ C6_Cancel]_vars
\* the threshold was set to the typed boundary value 1 and the next frame is
\* being processed with it
WitnessC6 ==
    /\ config.confidence_threshold = 100
    /\ pc = "box"
    /\ detection_stats.total_detections > 0

\* C7: on every way out of the loop the capture is released once, the windows
\* are destroyed once and the stats are printed once, with their final values;
\* nothing is released while the loop runs.
ClaimC7 ==
    /\ (ended # "no" <=> pc \in {"finally", "done"})
    /\ (pc = "finally" => ENABLED Finally)
    /\ (pc # "done" => cap_released = 0 /\ windows_destroyed = 0 /\ reported = <<>>)
    /\ (pc = "done" => /\ cap_released = 1
                       /\ windows_destroyed = 1
                       /\ reported = <<detection_stats>>)
\* the loop was left by an exception, after detections were counted, and cleaned up
WitnessC7 ==
    /\ pc = "done"
    /\ ended = "exception"
    /\ cap_released = 1
    /\ windows_destroyed = 1
    /\ detection_stats.total_detections > 0
    /\ reported = <<detection_stats>>

\* C8 as stated: an interrupt at any point of the loop, a pending prompt
\* included, leaves the loop for the cleanup.
ClaimC8Original == [][Interrupt => pc' = "finally"]_vars
\* C8 amended: an interrupt outside the edit prompts leaves the loop for the
\* cleanup, after which no tick is taken and the resources are released; an
\* interrupt during an edit prompt cancels the edit, changes nothing of the
\* session and the loop goes on.
C8_Interrupt ==
    Interrupt =>
        IF pc \in {"promptC", "promptT", "applyC", "applyT"}
        THEN pc' = "loop" /\ ended' = "no" /\ UNCHANGED sessionVars
        ELSE pc' = "finally" /\ ended' = "interrupt"
C8_Stopped == pc \in {"finally", "done"} => pc' \in {"finally", "done"}
C8_Released ==
    (pc = "done" /\ ended = "interrupt") => (cap_released = 1 /\ windows_destroyed = 1)
ClaimC8 == [][C8_Interrupt /\ C8_Stopped]_vars /\ []C8_Released
\* the session was shut down by an interrupt that arrived in the box loop
\* after a notification
WitnessC8 ==
    /\ pc = "done"
    /\ ended = "interrupt"
    /\ cap_released = 1
    /\ windows_destroyed = 1
    /\ fireLog # <<>>
    /\ last_notification_time = 0

\* C9: a box whose class id has no label is dropped: no exception leaves the loop.
ClaimC9 == ended # "exception"

\* C10: the session starts running with the help shown; the pause key flips
\* paused and nothing else, the help key flips show_help and nothing else, an
\* unrecognized key or no key changes nothing, after each of them the loop goes
\* on, and the handler ends the loop for the quit key only; no other step
\* changes the two flags.
C10_Start == pc = "main" => (paused' = FALSE /\ show_help' = TRUE)
C10_Frame == UNCHANGED <<config, detection_stats, last_notification_time>>
C10_Key ==
    HandleKeyboardInput(EnvSession) =>
        /\ (pc' = "finally" <=> key = 113)
        /\ (pc' = "finally" => ended' = "quit")
        /\ key = 32 => (/\ paused' = ~paused
                        /\ pc' = "loop"
                        /\ C10_Frame /\ UNCHANGED <<show_help, file>>)
        /\ key = 104 => (/\ show_help' = ~show_help
                         /\ pc' = "loop"
                         /\ C10_Frame /\ UNCHANGED <<paused, file>>)
        /\ key \notin {113, 32, 104, 99, 116, 115}
              => (pc' = "loop" /\ C10_Frame /\ UNCHANGED <<paused, show_help, file>>)
C10_Only ==
    (paused' # paused \/ show_help' # show_help) => HandleKeyboardInput(EnvSession)
ClaimC10 == [][C10_Start /\ C10_Key /\ C10_Only]_vars
\* paused with the help hidden, after which a frame was still read
WitnessC10 ==
    /\ paused
    /\ ~show_help
    /\ pc = "draw"

\* C11: the exit status tells a quit from a frame-read failure.  Once the
\* process has exited, the capture was released once, the windows destroyed
\* once and the stats reported once; after a quit the status is 0, and after
\* a failed frame read (running or paused) it is not 0.
ClaimC11 ==
    exit_status # <<>> /\ ended \in {"quit", "read_failed", "read_failed_paused"} =>
        /\ cap_released = 1
        /\ windows_destroyed = 1
        /\ Len(reported) = 1
        /\ (ended = "quit" => exit_status = <<0>>)
        /\ (ended # "quit" => exit_status # <<0>>)

\* the alert thread of show_notification does not hold the main thread: a
\* call of show_notification can be made whatever number of alerts is still
\* on screen, and the assignment after it can follow at once
C12_NotBlocked ==
    /\ (pc = "notify" => ENABLED Notify)
    /\ (pc = "stamp" => ENABLED Stamp)
    /\ (alerts > 0 /\ exit_status = <<>> => ENABLED AlertEnd)

\* a step in which an alert thread finishes leaves the main thread where it
\* is and the configuration, flags, stats and timestamp as they are
C12_Isolated ==
    (alerts' < alerts /\ exit_status' = <<>>) =>
        UNCHANGED <<pc, config, paused, show_help, detection_stats,
                    last_notification_time, file, fireLog, ended>>

\* C12: the tick loop never waits on an alert.  After a fire the main thread
\* goes on whether or not the alert ever finishes, a later fire starts while
\* an earlier alert is still in flight, and an alert that finishes touches
\* none of the configuration, the flags, the stats or the throttle timestamp.
ClaimC12 == [](C12_NotBlocked) /\ [][C12_Isolated]_vars

\* the session shut down with two alerts still in flight
WitnessC12 == pc = "done" /\ alerts = 2 /\ Len(fireLog) = 2

\* the step that handles ord('s')
C13_SaveStep == pc = "key" /\ key = 115

\* what the session holds after construction, by the file found: the
\* defaults for a missing or unreadable file, the file's values with the
\* absent keys taken from the defaults otherwise; --targets Car, when given,
\* replaces the target classes
C13_Loaded(f, cfg) ==
    LET fromFile ==
            IF f = FilePartial
            THEN [confidence_threshold |-> 50,
                  target_classes |-> << <<"P","e","r","s","o","n">>, <<"c","a","r">> >>,
                  show_all_detections |-> FALSE,
                  save_detections |-> FALSE]
            ELSE IF f = FileShowAll
            THEN [confidence_threshold |-> 50,
                  target_classes |-> <<>>,
                  show_all_detections |-> TRUE,
                  save_detections |-> TRUE]
            ELSE [confidence_threshold |-> 50,
                  target_classes |-> << <<"p","e","r","s","o","n">> >>,
                  show_all_detections |-> FALSE,
                  save_detections |-> FALSE]
    IN \/ cfg = fromFile
       \/ cfg = [fromFile EXCEPT !.target_classes = << <<"c","a","r">> >>]

C13_Load == pc = "main" => C13_Loaded(file, config')

\* C13 as stated: the file changes only in the step that handles the save
\* key, so construction never writes it, whatever file it finds
ClaimC13Original == [][(file' # file => C13_SaveStep) /\ C13_Load]_vars

\* construction creates a missing file: with the defaults, or empty when the
\* dump fails after the file was opened; a file that exists is left as found
C13_Created ==
    /\ pc = "main"
    /\ file.state = "missing"
    /\ file' \in {[state |-> "ok",
                   content |-> [confidence_threshold |-> 50,
                                target_classes |-> << <<"p","e","r","s","o","n">> >>,
                                show_all_detections |-> FALSE,
                                save_detections |-> FALSE]],
                  [state |-> "corrupt", content |-> <<>>]}

\* C13: the configuration file changes only when the save key is handled or
\* when construction finds no file and creates it with the defaults; a file
\* that exists, readable or not, is never written by construction, the
\* command-line overrides or the edits; an unreadable file gives the
\* defaults in memory and a file with absent keys gives its values with the
\* absent keys taken from the defaults.
ClaimC13 == [][(file' # file => C13_SaveStep \/ C13_Created) /\ C13_Load]_vars

\* constructed without a file and with --targets Car: the file now holds the
\* defaults, which no save of this session's configuration can write
WitnessC13 ==
    /\ pc = "loop"
    /\ file = Written(DefaultConfig)
    /\ config = [DefaultConfig EXCEPT !.target_classes = <<Car>>]

\* the save key is handled and the file does not hold the configuration
\* afterwards: open() or json.dump raised inside save_config
C14_SaveFailed ==
    HandleKeyboardInput(EnvFiles) /\ key = 115 /\ file' # [state |-> "ok", content |-> config]

\* the stats update is followed by a log append that wrote fewer lines than
\* the tick has detections
C14_AppendFailed ==
    /\ UpdateTarget
    /\ config.save_detections
    /\ log_lines' - log_lines < Len(detections)

\* the targets among the tick's detections, counted by label
C14_Targets ==
    Cardinality({i \in 1..Len(detections) :
                    \E j \in 1..Len(config.target_classes) :
                        Lower(config.target_classes[j]) = detections[i].class})

\* C14: a failed write never reaches the loop's control flow.  When the save
\* of the configuration or the append to the detections log fails, the main
\* thread goes on to the next position of the loop, the loop is not ended,
\* and the configuration, the flags, the throttle timestamp and the stats of
\* the tick are what they are after a write that succeeds.
ClaimC14 ==
    [][/\ C14_SaveFailed =>
             /\ pc' = "loop"
             /\ ended' = ended
             /\ UNCHANGED <<config, paused, show_help, last_notification_time,
                            detection_stats>>
       /\ C14_AppendFailed =>
             /\ pc' = "draw"
             /\ ended' = ended
             /\ UNCHANGED <<config, paused, show_help, last_notification_time>>
             /\ detection_stats'.total_detections = detection_stats.total_detections
             /\ detection_stats'.target_detections =
                    detection_stats.target_detections + C14_Targets]_vars

\* the loop goes on after both failures: the file read at start-up was
\* readable and is now empty, and the log is switched on, detections were
\* counted, and no line was appended
WitnessC14 ==
    /\ pc = "loop"
    /\ file.state = "corrupt"
    /\ config.save_detections
    /\ detection_stats.total_detections > 0
    /\ log_lines = 0

\* the lower-case label of a box, from the class table of the detector
C15_Label(b) ==
    IF b.cls = 0 THEN <<"p","e","r","s","o","n">>
    ELSE IF b.cls = 2 THEN <<"c","a","r">>
    ELSE <<"d","o","g">>

\* the target set compared in lower case
C15_TargetSet == {Lower(config.target_classes[j]) : j \in 1..Len(config.target_classes)}

C15_IsIncluded(b) == ~(b.conf < config.confidence_threshold)
C15_IsDrawn(b) ==
    C15_IsIncluded(b) /\ (C15_Label(b) \in C15_TargetSet \/ config.show_all_detections)

\* the boxes of the frame that are included, and those that are drawn
C15_Included ==
    LET kept == SelectSeq(raw, C15_IsIncluded)
    IN [i \in 1..Len(kept) |->
           [class |-> C15_Label(kept[i]), confidence |-> kept[i].conf]]
C15_Drawn ==
    LET kept == SelectSeq(raw, C15_IsDrawn)
    IN [i \in 1..Len(kept) |->
           [class |-> C15_Label(kept[i]), confidence |-> kept[i].conf,
            target |-> C15_Label(kept[i]) \in C15_TargetSet]]

\* C15: when process_frame returns, the detections are exactly the boxes of
\* the frame with confidence >= threshold (equality included), in order; a
\* box is drawn exactly when it is included and either its lower-case label
\* is in the lower-cased target set or show_all_detections is set; and it is
\* marked as target exactly when the label is in that set (never for an
\* empty set).
ClaimC15 == pc = "total" => detections = C15_Included /\ rendered = C15_Drawn

\* threshold 0.9, no target classes, show_all_detections set: the person at
\* 0.6 is dropped, the dog at exactly 0.9 is included and drawn as non-target
WitnessC15 ==
    /\ pc = "total"
    /\ config.confidence_threshold = 90
    /\ config.target_classes = <<>>
    /\ raw = <<PersonMid, DogHigh>>
    /\ rendered = <<[class |-> <<"d","o","g">>, confidence |-> 90, target |-> FALSE]>>

\* C16: on a fire the timestamp is set to the fire time before the alert is
\* dispatched.  So whenever an alert has been dispatched the timestamp is
\* the time of the last fire, and when the dispatch fails to start the
\* timestamp already holds the time of that attempt.
ClaimC16 ==
    /\ (fireLog # <<>> => last_notification_time = fireLog[Len(fireLog)])
    /\ (ended = "start_failed" => last_notification_time = now)

\* C17: a dispatch failure never reaches the tick loop.  No failure to start
\* the alert thread ends the loop, and once a tick has fired the timestamp
\* holds the time of that fire for the rest of the tick.
ClaimC17 ==
    /\ ended # "start_failed"
    /\ (tickFires > 0 /\ pc \in {"box", "total", "target", "draw", "key"} =>
            last_notification_time = fireLog[Len(fireLog)])

\* the boxes of the frame that pass the threshold, and the drawn boxes
\* marked as target
C18_Passed ==
    Cardinality({i \in 1..Len(raw) : raw[i].conf >= config.confidence_threshold})
C18_Flagged == Cardinality({i \in 1..Len(rendered) : rendered[i].target})

\* threshold 0.5, targets {person}, a person at 0.6 and a dog at 0.9
C18_Scenario ==
    /\ config.confidence_threshold = 50
    /\ config.target_classes = << <<"p","e","r","s","o","n">> >>
    /\ raw = <<[cls |-> 0, conf |-> 60], [cls |-> 16, conf |-> 90]>>

\* the two stats updates add what the box loop classified
C18_Stats ==
    /\ UpdateTotal =>
          /\ detection_stats'.total_detections =
                 detection_stats.total_detections + C18_Passed
          /\ (C18_Scenario =>
                 detection_stats'.total_detections = detection_stats.total_detections + 2)
    /\ UpdateTarget =>
          /\ detection_stats'.target_detections =
                 detection_stats.target_detections + C18_Flagged
          /\ tickFires <= C18_Flagged
          /\ (C18_Scenario =>
                 detection_stats'.target_detections = detection_stats.target_detections + 1)

\* a fire is for the detection appended last, whose label is a target
C18_Fire ==
    fireLog' # fireLog =>
        /\ detections # <<>>
        /\ detections[Len(detections)].class \in C15_TargetSet

\* the configuration changes only in construction and in the two edit
\* handlers, which run after the tick's key was read and return to the head
\* of the loop
C18_Edits ==
    config' # config => pc \in {"main", "applyC", "applyT"} /\ pc' = "loop"

\* C18: within a running tick, stats, notification and rendering use one
\* classification.  total_detections grows by the number of boxes that pass
\* the threshold, target_detections by the number of boxes drawn as target, a
\* tick that reaches the stats update fired only for a detection it counts
\* as target, and an edit of the configuration takes effect from the next
\* tick.  With threshold 0.5, targets {person}, a person at 0.6 and a dog at
\* 0.9 the tick adds 2 and 1.
ClaimC18 == [][C18_Stats /\ C18_Fire /\ C18_Edits]_vars

\* the scenario's tick after its stats update and its fire
WitnessC18 ==
    /\ pc = "draw"
    /\ C18_Scenario
    /\ detection_stats = [total_detections |-> 2, target_detections |-> 1]
    /\ tickFires = 1
    /\ C18_Flagged = 1

\* what a tick has done when its key is about to be handled: one frame read,
\* the detector run only when not paused, the overlay drawn, the frame shown,
\* one key read
C19_Tick ==
    pc = "key" =>
        trace = IF paused
                THEN <<"read", "overlay", "show", "key">>
                ELSE <<"read", "infer", "overlay", "show", "key">>

\* a failed read in a paused tick is followed by the finally block's work
C19_Shutdown ==
    pc = "done" /\ ended = "read_failed_paused" =>
        /\ cap_released = 1
        /\ windows_destroyed = 1
        /\ reported = <<detection_stats>>

\* while paused, no step enters the box loop or the stats update, and none
\* changes the stats, the timestamp, the fires or the log
C19_Paused ==
    paused =>
        /\ pc' \notin {"box", "notify", "stamp", "total", "target"}
        /\ UNCHANGED <<detection_stats, last_notification_time, fireLog, log_lines>>

\* C19: every tick, paused or running, reads exactly one frame, then draws
\* the overlay and shows the frame, then reads exactly one key; a paused tick
\* does not run the detector and leaves the stats, the throttle timestamp,
\* the fires and the log unchanged; and a failed read in a paused tick ends
\* the loop through the same finally block.
ClaimC19 == [](C19_Tick /\ C19_Shutdown) /\ [][C19_Paused]_vars

\* a running tick counted detections, a later tick was paused, its read
\* failed, and the session was shut down with the stats reported
WitnessC19 ==
    /\ pc = "done"
    /\ ended = "read_failed_paused"
    /\ detection_stats.total_detections > 0
    /\ reported = <<detection_stats>>
    /\ cap_released = 1

\* C20: at every tick boundary and at the final report the number of
\* notifications fired is at most target_detections, also when a tick was
\* aborted after a fire and before its stats update.
ClaimC20 ==
    /\ (pc \in {"loop", "done"} => Len(fireLog) <= detection_stats.target_detections)
    /\ (reported # <<>> => Len(fireLog) <= reported[1].target_detections)

====
